---- MODULE Spec2Model ----
(***************************************************************************)
(* A state-machine model of MRE-PINN's PINO training pipeline              *)
(* (mre_pinn/training/pino_training.py) and of its PDE residual operators  *)
(* (mre_pinn/pde.py).                                                      *)
(*                                                                         *)
(* Python values are modelled as follows.                                  *)
(*   - An optional integer (patch_size, batch_size) is a sequence: <<>>    *)
(*     is None and <<v>> is the integer v.                                 *)
(*   - A call ends "returned" or "raised"; a raise carries the exception   *)
(*     class and the name or message it is about.                          *)
(*   - Patient indices are Python's 0-based indices; cohort[idx + 1] is    *)
(*     the patient at index idx.                                           *)
(***************************************************************************)
EXTENDS Integers, Sequences, FiniteSets, TLC

\* Number of patients in the cohort (len(cohort)).
NumPatients == 3

NoneV == <<>>
Some(v) == <<v>>

Range(s) == {s[i] : i \in 1..Len(s)}
NoDup(s) == \A i, j \in 1..Len(s) : i # j => s[i] # s[j]
Min(a, b) == IF a <= b THEN a ELSE b
Max(a, b) == IF a >= b THEN a ELSE b

\* Python's `a or b` on an optional integer: None and 0 are falsy.
PyOr(a, b) == IF a = NoneV \/ a = Some(0) THEN b ELSE a

Raised(err, detail) ==
    [outcome |-> "raised", err |-> err, detail |-> detail, ret |-> NoneV]
Returned(ret) ==
    [outcome |-> "returned", err |-> "", detail |-> "", ret |-> ret]

-----------------------------------------------------------------------------
(* The cohort: named co-registered arrays per patient.                     *)

a_sequences == <<"t1_pre_in", "t1_pre_out", "t1_pre_water", "t1_pre_fat">>

\* The order in which get_tensors subscripts patient.arrays (lines 48-53).
ChannelReads == a_sequences \o <<"wave", "wave", "mre", "mre_mask">>

AllChannels == Range(ChannelReads)

\* The channel sets a defective patient record may lack.
LackOptions == {{"t1_pre_out"}, {"wave", "mre"}}

\* A cohort of n patients: the patients from position firstLacking on lack
\* the channels `lack`; when small, the first patient has the smaller grid.
CohortOf(n, firstLacking, lack, small) ==
    [i \in 1..n |->
        [arrays |-> IF i >= firstLacking THEN AllChannels \ lack ELSE AllChannels,
         shape |-> IF small /\ i = 1 THEN <<2, 3>> ELSE <<3, 3>>]]

CohortOptions ==
    {CohortOf(NumPatients, f, l, l = {"t1_pre_out"}) :
        f \in {2, NumPatients, NumPatients + 1}, l \in LackOptions}

PatchOptions == {NoneV, Some(2)}
BatchOptions == {Some(2)}

\* patch_size arguments tried on get_tensors directly.
PatchArgs == {NoneV, Some(-1), Some(0), Some(2), Some(4)}

\* All orderings of the indices 0..n-1.
Perms(n) ==
    {p \in [1..n -> 0..(n - 1)] : \A i, j \in 1..n : i # j => p[i] # p[j]}

\* The orderings np.random.shuffle can leave in a sampler over the cohort.
Orderings == Perms(NumPatients)

VARIABLES
    cohort,          \* PINOData.cohort
    pde,             \* PINOData.pde
    mask_level,      \* PINOData.mask_level
    batch_size,      \* PINOData.batch_size
    patch_size,      \* PINOData.patch_size
    device,          \* PINOData.device
    _indices,        \* batch_sampler._indices: the epoch's shuffled ordering
    _index_in_epoch, \* batch_sampler._index_in_epoch: the cursor into it
    epochDrawn,      \* history: indices drawn from the current ordering
    last,            \* the last call: its name, arguments and how it ended
    fld              \* the fields the PDE operators are applied to

dataVars == <<cohort, pde, mask_level, batch_size, patch_size, device, fld>>
samplerVars == <<_indices, _index_in_epoch, epochDrawn>>

-----------------------------------------------------------------------------
(* PINOData.get_tensors                                                    *)

RECURSIVE FirstMissingFrom(_, _, _)
FirstMissingFrom(reads, i, arrays) ==
    IF i > Len(reads) THEN ""
    ELSE IF reads[i] \notin arrays THEN reads[i]
    ELSE FirstMissingFrom(reads, i + 1, arrays)

\* The first subscript of patient.arrays that raises KeyError, "" if none.
FirstMissing(patient) == FirstMissingFrom(ChannelReads, 1, patient.arrays)

\* The five arrays get_tensors builds, by local name.
LocalArrays == {"a", "x", "u", "mu", "mask"}

\* What get_tensors returns: the index of the patient the values are read
\* from, the input tuple, the channels concatenated into the target, the
\* aux tuple, and per local array the window of the patient's grid it holds
\* (origin and extent on the two leading axes).
\* The return of line 73 with the targets concatenated as [u, mask, mu].
Tensors_mask_before_mu(idx, window, origin) ==
    [src |-> idx,
     inputs |-> <<"u", "x">>,
     targets |-> <<"u", "mask", "mu">>,
     aux |-> <<>>,
     window |-> window,
     origin |-> origin]

Tensors(idx, window, origin) ==
    [src |-> idx,
     inputs |-> <<"u", "x">>,
     targets |-> <<"u", "mu", "mask">>,
     aux |-> <<>>,
     window |-> window,
     origin |-> origin]

FullWindow(patient) ==
    [v \in LocalArrays |->
        [x0 |-> 0, y0 |-> 0, nx |-> patient.shape[1], ny |-> patient.shape[2]]]

\* The patch branch guarded by truthiness (`if patch_size:`) instead of
\* `is not None`.
get_tensors_truthy_patch(co, idx, ps) ==
    LET patient == co[idx + 1] IN
    IF FirstMissing(patient) # ""
    THEN {Raised("KeyError", FirstMissing(patient))}
    ELSE IF ps = NoneV \/ ps = Some(0)
    THEN {Returned(Tensors(idx, FullWindow(patient), NoneV))}
    ELSE {Raised("NameError", "y")}

\* get_tensors(idx, patch_size) on the patient at idx: the set of ways the
\* call can end.  The channel subscripts come first (KeyError on the first
\* missing name).  With a patch size, line 56 reads `y.shape`, and no name
\* `y` is bound in the function or the module: NameError, before any
\* origin is drawn or any array is cropped.
get_tensors(co, idx, ps) ==
    LET patient == co[idx + 1] IN
    IF FirstMissing(patient) # ""
    THEN {Raised("KeyError", FirstMissing(patient))}
    ELSE IF ps = NoneV
    THEN {Returned(Tensors(idx, FullWindow(patient), NoneV))}
    ELSE {Raised("NameError", "y")}

-----------------------------------------------------------------------------
(* deepxde.data.BatchSampler(len(cohort), shuffle=True)                    *)

SubSeqOrEmpty(s, lo, hi) == IF lo > hi THEN <<>> ELSE SubSeq(s, lo, hi)

\* get_next(batch_size): the next batch_size indices of the shuffled
\* ordering.  When fewer than batch_size are left, the rest of the ordering
\* is taken, the ordering is reshuffled, and the batch is completed from
\* the head of the new ordering.
get_next(indices, index_in_epoch, n, B) ==
    LET start == index_in_epoch IN
    IF start + B <= n
    THEN {[inds |-> SubSeqOrEmpty(indices, start + 1, start + B),
           indices |-> indices,
           index_in_epoch |-> start + B,
           reshuffled |-> FALSE,
           rest |-> 0]}
    ELSE {[inds |-> SubSeqOrEmpty(indices, start + 1, n)
                    \o SubSeqOrEmpty(p, 1, B - (n - start)),
           indices |-> p,
           index_in_epoch |-> B - (n - start),
           reshuffled |-> TRUE,
           rest |-> n - start] : p \in Orderings}

-----------------------------------------------------------------------------
(* PINOData.train_next_batch                                               *)

\* An element of the lists the loop appends to: the patient its tensors were
\* read from and their extents on the two leading axes.
Sample(t) == [src |-> t.src, shape |-> <<t.window["u"].nx, t.window["u"].ny>>]

\* The loop of lines 90-94 from position i on, `samples` being what was
\* appended so far: the set of ways it can end.  A raise in get_tensors
\* leaves the loop and the function.
RECURSIVE batch_loop(_, _, _, _, _)
batch_loop(co, ps, batch_inds, i, samples) ==
    IF i > Len(batch_inds)
    THEN {[outcome |-> "returned", err |-> "", detail |-> "",
           at |-> 0, samples |-> samples]}
    ELSE UNION {
           IF r.outcome = "raised"
           THEN {[outcome |-> "raised", err |-> r.err, detail |-> r.detail,
                  at |-> i, samples |-> samples]}
           ELSE batch_loop(co, ps, batch_inds, i + 1, Append(samples, Sample(r.ret)))
           : r \in get_tensors(co, batch_inds[i], ps)}

\* torch.stack needs tensors of one shape.
Stackable(samples) ==
    \A i, j \in 1..Len(samples) : samples[i].shape = samples[j].shape

\* The loop that drops a sample whose get_tensors raised and goes on.
RECURSIVE batch_loop_skip(_, _, _, _, _)
batch_loop_skip(co, ps, batch_inds, i, samples) ==
    IF i > Len(batch_inds)
    THEN {[outcome |-> "returned", err |-> "", detail |-> "",
           at |-> 0, samples |-> samples]}
    ELSE UNION {
           IF r.outcome = "raised"
           THEN batch_loop_skip(co, ps, batch_inds, i + 1, samples)
           ELSE batch_loop_skip(co, ps, batch_inds, i + 1, Append(samples, Sample(r.ret)))
           : r \in get_tensors(co, batch_inds[i], ps)}

BatchReturn(l, batch_inds, return_inds) ==
    IF l.outcome = "raised" THEN Raised(l.err, l.detail) @@ [at |-> l.at]
    ELSE IF ~Stackable(l.samples)
    THEN Raised("RuntimeError", "stack") @@ [at |-> 0]
    ELSE Returned([inputs |-> <<"u", "x">>,
                   targets |-> <<"u", "mu", "mask">>,
                   aux |-> <<>>,
                   n |-> Len(l.samples),
                   samples |-> l.samples,
                   inds |-> IF return_inds THEN Some(batch_inds) ELSE NoneV])
         @@ [at |-> 0]

train_next_batch_skipping(co, ps, batch_inds, return_inds) ==
    {BatchReturn(l, batch_inds, return_inds)
        : l \in batch_loop_skip(co, ps, batch_inds, 1, <<>>)}

\* The batch returned without the last drawn index.
train_next_batch_short(co, ps, batch_inds, return_inds) ==
    {BatchReturn(l, SubSeqOrEmpty(batch_inds, 1, Len(batch_inds) - 1), return_inds)
        : l \in batch_loop(co, ps, batch_inds, 1, <<>>)}

\* Lines 89-103 for the drawn batch_inds: the set of ways the call can end.
train_next_batch(co, ps, batch_inds, return_inds) ==
    {BatchReturn(l, batch_inds, return_inds)
        : l \in batch_loop(co, ps, batch_inds, 1, <<>>)}

-----------------------------------------------------------------------------
(* The elements of the target tensor                                       *)
(*                                                                         *)
(* An array over the two cropped axes and a last axis is a record: its     *)
(* extents nx, ny, c and its elements at[<<i, j, k>>], indices from 0.  A   *)
(* stacked tensor has a leading axis of extent n and elements              *)
(* at[<<b, i, j, k>>].  An element of a patient array is named by where it  *)
(* is stored, so that every copy can be traced to its origin.              *)

\* patient.arrays[ch].values[i, j] of the patient at idx.
Value(idx, ch, i, j) == <<idx, ch, i, j>>

\* The channel each of the target arrays is read from, lines 51-53.
ChannelOf == [u |-> "wave", mu |-> "mre", mask |-> "mre_mask"]

\* patient.arrays[ch].values[..., None] over the window w: a last axis of
\* extent 1 is added.
ValuesNewAxis(idx, ch, w) ==
    [nx |-> w.nx, ny |-> w.ny, c |-> 1,
     at |-> [q \in (0..(w.nx - 1)) \X (0..(w.ny - 1)) \X {0} |->
                Value(idx, ch, w.x0 + q[1], w.y0 + q[2])]]

\* An element converted to float32: the conversion of the element v, which
\* need not be v.
Float32(v) == [dtype |-> "float32", of |-> v]

\* torch.tensor(arr, device=self.device, dtype=torch.float32), lines 67-71:
\* a copy of arr with every element converted.
torch_tensor(arr) ==
    [arr EXCEPT !.at = [q \in DOMAIN arr.at |-> Float32(arr.at[q])]]

\* The part of `parts` holding index k of the concatenated last axis, and
\* the index within it.
RECURSIVE Locate(_, _, _)
Locate(parts, p, k) ==
    IF k < parts[p].c THEN <<p, k>> ELSE Locate(parts, p + 1, k - parts[p].c)

RECURSIVE SumC(_, _)
SumC(parts, p) == IF p > Len(parts) THEN 0 ELSE parts[p].c + SumC(parts, p + 1)

\* torch.cat(parts, dim=-1): the parts must agree on the other axes.
torch_cat_last(parts) ==
    IF \E p, q \in 1..Len(parts) :
          parts[p].nx # parts[q].nx \/ parts[p].ny # parts[q].ny
    THEN Raised("RuntimeError", "cat")
    ELSE LET nx == parts[1].nx
             ny == parts[1].ny
             c == SumC(parts, 1)
         IN  Returned(
               [nx |-> nx, ny |-> ny, c |-> c,
                at |-> [q \in (0..(nx - 1)) \X (0..(ny - 1)) \X (0..(c - 1)) |->
                          LET loc == Locate(parts, 1, q[3])
                          IN  parts[loc[1]].at[<<q[1], q[2], loc[2]>>]]])

\* The target of line 73 for the tensors t get_tensors returns.
target_of(t) ==
    torch_cat_last([v \in 1..Len(t.targets) |->
        torch_tensor(ValuesNewAxis(t.src, ChannelOf[t.targets[v]],
                                   t.window[t.targets[v]]))])

\* The targets list of lines 89-94 from position i on: the ways the loop
\* can end, a raise of get_tensors or of the concatenation leaving it.
RECURSIVE targets_loop(_, _, _, _, _)
targets_loop(co, ps, batch_inds, i, targets) ==
    IF i > Len(batch_inds) THEN {Returned(targets)}
    ELSE UNION {
           IF r.outcome = "raised" THEN {Raised(r.err, r.detail)}
           ELSE LET target == target_of(r.ret)
                IN  IF target.outcome = "raised"
                    THEN {Raised(target.err, target.detail)}
                    ELSE targets_loop(co, ps, batch_inds, i + 1,
                                      Append(targets, target.ret))
           : r \in get_tensors(co, batch_inds[i], ps)}

\* torch.stack(targets), line 97: a new leading axis over tensors of one
\* shape.
torch_stack(ts) ==
    IF ts = <<>> \/ \E p, q \in 1..Len(ts) :
          <<ts[p].nx, ts[p].ny, ts[p].c>> # <<ts[q].nx, ts[q].ny, ts[q].c>>
    THEN Raised("RuntimeError", "stack")
    ELSE Returned(
           [n |-> Len(ts), nx |-> ts[1].nx, ny |-> ts[1].ny, c |-> ts[1].c,
            at |-> [q \in (0..(Len(ts) - 1)) \X (0..(ts[1].nx - 1))
                          \X (0..(ts[1].ny - 1)) \X (0..(ts[1].c - 1)) |->
                      ts[q[1] + 1].at[<<q[2], q[3], q[4]>>]]])

\* The stacked targets train_next_batch builds for the drawn batch_inds.
batch_targets(co, ps, batch_inds) ==
    {IF l.outcome = "raised" THEN l ELSE torch_stack(l.ret)
        : l \in targets_loop(co, ps, batch_inds, 1, <<>>)}

\* torch.split(t, size, dim=-1) of a stacked tensor: chunks of `size` along
\* the last axis, the last one shorter when size does not divide it.
torch_split(t, size) ==
    [m \in 1..((t.c + size - 1) \div size) |->
        LET lo == (m - 1) * size
            hi == Min(m * size, t.c)
        IN  [n |-> t.n, nx |-> t.nx, ny |-> t.ny, c |-> hi - lo,
             at |-> [q \in (0..(t.n - 1)) \X (0..(t.nx - 1))
                           \X (0..(t.ny - 1)) \X (0..(hi - lo - 1)) |->
                       t.at[<<q[1], q[2], q[3], lo + q[4]>>]]]]

\* losses, line 27: u_true, mu_true, mask = torch.split(targets, 1, dim=-1);
\* the unpacking needs exactly three chunks.
losses_split(targets) ==
    LET chunks == torch_split(targets, 1)
    IN  IF Len(chunks) # 3 THEN Raised("ValueError", "unpack")
        ELSE Returned([u_true |-> chunks[1], mu_true |-> chunks[2],
                       mask |-> chunks[3]])

-----------------------------------------------------------------------------
(* Tensors of the PDE operators (mre_pinn/pde.py)                          *)
(*                                                                         *)
(* An N x M tensor is a sequence of M columns.  A column of a network      *)
(* output holds, per sample point n, its value val[n], its Hessian         *)
(* hess[n][j][k] with respect to the input columns j, k, its derivatives   *)
(* tu[n] and tm[n] with respect to a parameter of the displacement network *)
(* and of the modulus network (tuhess: the Hessian of tu), and deps, the   *)
(* network outputs its autograd graph is attached to.  Arithmetic is exact *)
(* (real numbers, no rounding); a residual value is a pair <<r, p>>        *)
(* standing for r + p * (2*pi)^2.                                          *)

\* Largest numbers of sample points N, input columns K and displacement
\* components M of the fields the operators are applied to.
MaxN == 2
MaxK == 3
MaxM == 2

USeeds == {0, 1, 2}
HSeeds == {-1, 0, 1}
MuSeeds == {1, 2}
OmegaSeeds == {1, 2}

RECURSIVE Pow2(_)
Pow2(j) == IF j = 0 THEN 1 ELSE 2 * Pow2(j - 1)

\* The weight of the second partial d2/dx_j dx_k of a field at point n,
\* component i: the pure partials get distinct powers of two, the mixed
\* ones other (symmetric) weights.
HessWeight(n, i, j, k) ==
    (10 * n + i) * (IF j = k THEN Pow2(j) ELSE 100 + j + k)

\* A displacement component (column i of the network's output) over N
\* points and K input columns.
UColumn(N, K, i, su, sh) ==
    [val |-> [n \in 1..N |-> su * (10 * n + i)],
     hess |-> [n \in 1..N |-> [j \in 1..K |-> [k \in 1..K |->
                 sh * HessWeight(n, i, j, k)]]],
     tu |-> [n \in 1..N |-> 3 * (10 * n + i) + 1],
     tuhess |-> [n \in 1..N |-> [j \in 1..K |-> [k \in 1..K |->
                 HessWeight(n, i, j, k) + 1]]],
     tm |-> [n \in 1..N |-> 0],
     deps |-> {"u"}]

\* The modulus column of the network's output.
MuColumn(N, smu) ==
    [val |-> [n \in 1..N |-> smu * n],
     tu |-> [n \in 1..N |-> 0],
     tm |-> [n \in 1..N |-> 1],
     deps |-> {"mu"}]

\* The inputs of one evaluation, from their seeds.
FieldOptions ==
    [N : 1..MaxN, K : 1..MaxK, M : 1..MaxM, su : USeeds, sh : HSeeds,
     smu : MuSeeds, somega : OmegaSeeds]

NoField == [N |-> 0]

\* x: N x K, column 0 the frequency, the rest coordinates.
XOf(F) == [n \in 1..F.N |-> [j \in 1..F.K |-> IF j = 1 THEN F.somega * n ELSE n + j]]

\* u: N x M.
UOf(F) == [i \in 1..F.M |-> UColumn(F.N, F.K, i, F.su, F.sh)]

\* outputs: N x (M + 1), the modulus last.
OutputsOf(F) == UOf(F) \o <<MuColumn(F.N, F.smu)>>

\* x.shape[0], x.shape[1]
Rows(x) == Len(x)
Cols(x) == Len(x[1])

\* u.detach(): the same values, cut from the autograd graph.
Detach(col) ==
    [col EXCEPT !.tu = [n \in DOMAIN col.val |-> 0],
                !.tm = [n \in DOMAIN col.val |-> 0],
                !.deps = {}]

\* deepxde.grad.hessian(u, x, component=c, i=i, j=j): the column of second
\* partials d2 u[:, c] / dx_i dx_j.  component must be None exactly when u
\* has a single column.
hessian(u, x, c, i, j) ==
    IF (Len(u) > 1) = (c = NoneV)
    THEN Raised("ValueError", "component")
    ELSE LET col == IF c = NoneV THEN u[1] ELSE u[c[1] + 1]
         IN  Returned([val |-> [n \in 1..Rows(x) |-> col.hess[n][i + 1][j + 1]],
                       tu |-> [n \in 1..Rows(x) |-> col.tuhess[n][i + 1][j + 1]],
                       tm |-> [n \in 1..Rows(x) |-> 0],
                       deps |-> col.deps])

\* Python's int 0, the start value of `component`.
PyZero == [py_int |-> 0]

\* component += column
PlusEq(acc, col) ==
    IF acc = PyZero THEN col
    ELSE [val |-> [n \in DOMAIN col.val |-> acc.val[n] + col.val[n]],
          tu |-> [n \in DOMAIN col.val |-> acc.tu[n] + col.tu[n]],
          tm |-> [n \in DOMAIN col.val |-> acc.tm[n] + col.tm[n]],
          deps |-> acc.deps \cup col.deps]

\* The inner loop of laplacian (lines 24-25) from input column j on:
\* `component` at its end, and the Hessian calls made.
RECURSIVE inner_loop(_, _, _, _, _, _)
inner_loop(u, x, c, j, component, calls) ==
    IF j >= Cols(x)
    THEN [outcome |-> "returned", component |-> component, calls |-> calls]
    ELSE LET h == hessian(u, x, c, j, j)
             made == Append(calls, [component |-> c, i |-> j, j |-> j])
         IN  IF h.outcome = "raised"
             THEN [outcome |-> "raised", err |-> h.err, detail |-> h.detail,
                   calls |-> made]
             ELSE inner_loop(u, x, c, j + 1, PlusEq(component, h.ret), made)

\* The outer loop of laplacian (lines 21-26) from output component i on.
RECURSIVE outer_loop(_, _, _, _, _, _)
outer_loop(u, x, dim, i, components, calls) ==
    IF i >= Len(u)
    THEN [outcome |-> "returned", components |-> components, calls |-> calls]
    ELSE LET c == IF Len(u) > 1 THEN Some(i) ELSE NoneV
             r == inner_loop(u, x, c, dim, PyZero, calls)
         IN  IF r.outcome = "raised" THEN r
             ELSE outer_loop(u, x, dim, i + 1,
                             Append(components, r.component), r.calls)

\* torch.cat(components, dim=1) of N x 1 columns: every element must be a
\* tensor and the list must not be empty.
torch_cat(components) ==
    IF components = <<>> THEN Raised("RuntimeError", "torch.cat")
    ELSE IF \E i \in 1..Len(components) : components[i] = PyZero
    THEN Raised("TypeError", "torch.cat")
    ELSE Returned(components)

LaplacianResult(r) ==
    IF r.outcome = "raised"
    THEN Raised(r.err, r.detail) @@ [calls |-> r.calls]
    ELSE torch_cat(r.components) @@ [calls |-> r.calls]

\* laplacian with the summation started at input column 0 whatever dim is.
laplacian_from_zero(u, x, dim) ==
    LaplacianResult(outer_loop(u, x, 0, 0, <<>>, <<>>))

\* laplacian(u, x, dim), lines 9-27.
laplacian(u, x, dim) ==
    LaplacianResult(outer_loop(u, x, dim, 0, <<>>, <<>>))

\* mu * laplace_u and rho * (2*pi*omega)**2 * u, summed: one column of the
\* residual.  mu and omega are N x 1 and broadcast over the columns.
ResidualColumn(rho, omega, mu, ucol, lcol) ==
    LET w(n) == rho * omega[n] * omega[n] IN
    [val |-> [n \in DOMAIN ucol.val |->
                <<mu.val[n] * lcol.val[n], w(n) * ucol.val[n]>>],
     tu |-> [n \in DOMAIN ucol.val |->
                <<mu.tu[n] * lcol.val[n] + mu.val[n] * lcol.tu[n], w(n) * ucol.tu[n]>>],
     tm |-> [n \in DOMAIN ucol.val |->
                <<mu.tm[n] * lcol.val[n] + mu.val[n] * lcol.tm[n], w(n) * ucol.tm[n]>>],
     deps |-> mu.deps \cup lcol.deps \cup ucol.deps]

\* __call__ with only u detached, laplace_u left attached.
WaveEquation_call_detach_u_only(self, x, outputs) ==
    LET u == SubSeqOrEmpty(outputs, 1, Len(outputs) - 1)
        mu == outputs[Len(outputs)]
        omega == [n \in 1..Rows(x) |-> x[n][1]]
        laplace_u == laplacian(u, x, 1)
    IN  IF laplace_u.outcome = "raised"
        THEN Raised(laplace_u.err, laplace_u.detail)
        ELSE Returned([i \in 1..Len(u) |->
                ResidualColumn(self.rho, omega, mu,
                    IF self.detach THEN Detach(u[i]) ELSE u[i],
                    laplace_u.ret[i])])

\* __call__ with the Laplacian taken over every input column.
WaveEquation_call_all_columns(self, x, outputs) ==
    LET u == SubSeqOrEmpty(outputs, 1, Len(outputs) - 1)
        mu == outputs[Len(outputs)]
        omega == [n \in 1..Rows(x) |-> x[n][1]]
        laplace_u == laplacian(u, x, 0)
    IN  IF laplace_u.outcome = "raised"
        THEN Raised(laplace_u.err, laplace_u.detail)
        ELSE Returned([i \in 1..Len(u) |->
                ResidualColumn(self.rho, omega, mu,
                    IF self.detach THEN Detach(u[i]) ELSE u[i],
                    IF self.detach THEN Detach(laplace_u.ret[i])
                                   ELSE laplace_u.ret[i])])

\* WaveEquation.__call__(x, outputs), lines 46-66.
WaveEquation_call(self, x, outputs) ==
    LET u == SubSeqOrEmpty(outputs, 1, Len(outputs) - 1)
        mu == outputs[Len(outputs)]
        omega == [n \in 1..Rows(x) |-> x[n][1]]
        laplace_u == laplacian(u, x, 1)
    IN  IF laplace_u.outcome = "raised"
        THEN Raised(laplace_u.err, laplace_u.detail)
        ELSE Returned([i \in 1..Len(u) |->
                ResidualColumn(self.rho, omega, mu,
                    IF self.detach THEN Detach(u[i]) ELSE u[i],
                    IF self.detach THEN Detach(laplace_u.ret[i])
                                   ELSE laplace_u.ret[i])])

\* The names bound at module level in pde.py.
ModuleNames ==
    {"np", "torch", "deepxde", "jacobian", "hessian", "laplacian",
     "WaveEquation", "lvwe", "homogeneous_lvwe",
     "incompressible_homogeneous_lvwe", "pressure_homogeneous_lvwe"}

\* The first of `names`, in evaluation order, that is not bound: looking it
\* up raises NameError, so nothing after it is evaluated.
RECURSIVE FirstUnbound(_, _)
FirstUnbound(names, i) ==
    IF i > Len(names) THEN ""
    ELSE IF names[i] \notin ModuleNames THEN names[i]
    ELSE FirstUnbound(names, i + 1)

\* mu * laplace_u + rho * omega**2 * u with a scalar omega: one column.
HelmholtzColumn(rho, omega, mu, ucol, lcol) ==
    [val |-> [n \in DOMAIN ucol.val |->
                mu.val[n] * lcol.val[n] + rho * omega * omega * ucol.val[n]]]

\* lvwe, lines 69-81: jacobian, strain, then `trace` and `I` are looked up
\* in the stress expression, before `divergence`.
lvwe(x, u, mu, lam, rho, omega) ==
    Raised("NameError",
           FirstUnbound(<<"jacobian", "trace", "I", "divergence">>, 1))

\* homogeneous_lvwe, lines 84-95: laplacian, then `divergence` and
\* `gradient` are looked up.
homogeneous_lvwe(x, u, mu, lam, rho, omega) ==
    LET laplace_u == laplacian(u, x, 0)
    IN  IF laplace_u.outcome = "raised"
        THEN Raised(laplace_u.err, laplace_u.detail)
        ELSE Raised("NameError", FirstUnbound(<<"divergence", "gradient">>, 1))

\* incompressible_homogeneous_lvwe, lines 98-108.
incompressible_homogeneous_lvwe(x, u, mu, rho, omega) ==
    LET laplace_u == laplacian(u, x, 0)
    IN  IF laplace_u.outcome = "raised"
        THEN Raised(laplace_u.err, laplace_u.detail)
        ELSE Returned([i \in 1..Len(u) |->
                HelmholtzColumn(rho, omega, mu, u[i], laplace_u.ret[i])])

\* pressure_homogeneous_lvwe, lines 111-122: laplacian, then `gradient` is
\* looked up.
pressure_homogeneous_lvwe(x, u, mu, p, rho, omega) ==
    LET laplace_u == laplacian(u, x, 0)
    IN  IF laplace_u.outcome = "raised"
        THEN Raised(laplace_u.err, laplace_u.detail)
        ELSE Raised("NameError", FirstUnbound(<<"gradient">>, 1))

-----------------------------------------------------------------------------
(* WaveEquation as the pipeline sees it                                    *)

\* WaveEquation(detach, rho=1000, debug=False)
WaveEquation(detach) ==
    [class |-> "WaveEquation", detach |-> detach, rho |-> 1000,
     homogeneous |-> TRUE, incompressible |-> TRUE, debug |-> FALSE]

\* The parameters of WaveEquation.__call__ after self.
WaveEquationCallParams == <<"x", "outputs">>

\* What attribute lookup finds on a WaveEquation object.
WaveEquationAttrs ==
    {"detach", "rho", "homogeneous", "incompressible", "debug", "__call__"}

\* pde(*args): binding the positional arguments to __call__'s parameters
\* raises TypeError when their numbers differ; otherwise the residual of the
\* arguments is returned (WaveEquation_call below computes its value).
pde_call(p, args) ==
    IF Len(args) # Len(WaveEquationCallParams)
    THEN Raised("TypeError", "__call__")
    ELSE Returned([residual_of |-> args])

-----------------------------------------------------------------------------
(* PINOData.losses                                                         *)

\* loss_fn(true, pred, mask, mask_level), kept as the term it is.
LossTerm(true, pred, mask, level) ==
    [fn |-> "loss_fn", true |-> true, pred |-> pred, mask |-> mask, level |-> level]

\* losses(targets, outputs, loss_fn, inputs, model): targets are split into
\* (u_true, mu_true, mask), outputs[:2] are (u_pred, mu_pred); the two data
\* terms are computed, then the residual self.pde(x, u_pred, mu_pred) is
\* asked for.  `derivs` are the derivative evaluations the call came to.
losses(p, level) ==
    LET u_loss == LossTerm(<<"u_true">>, <<"u_pred">>, "mask", level)
        mu_loss == LossTerm(<<"mu_true">>, <<"mu_pred">>, "mask", level)
        pde_res == pde_call(p, <<"x", "u_pred", "mu_pred">>)
    IN  IF pde_res.outcome = "raised"
        THEN Raised(pde_res.err, pde_res.detail) @@ [derivs |-> {}]
        ELSE Returned(<<u_loss, mu_loss,
                        LossTerm(<<"0">>, pde_res.ret.residual_of, "mask", level)>>)
             @@ [derivs |-> {"laplacian"}]

-----------------------------------------------------------------------------
(* PINOModel: the method in progress                                       *)

\* No PINOModel method is running.
Idle == [method |-> "idle"]

\* A running PINOModel method: the line it is about to execute, whether the
\* coordinate tensor x has requires_grad set, the forward pass's outputs
\* (None before it ran; afterwards whether they were produced while x was
\* tracked), and the derivative evaluations requested so far.
Frame(method, line, x_grad, left) ==
    [method |-> method, line |-> line, x_grad |-> x_grad, fwd |-> NoneV,
     derivs |-> {}, left |-> left]

\* A derivative of the forward pass's outputs with respect to x, requested
\* by `by` in frame f.
Derivative(f, by) ==
    [by |-> by,
     after_forward |-> f.fwd # NoneV,
     x_tracked_at_forward |-> f.fwd # NoneV /\ f.fwd[1].tracked]

\* predict with the forward pass run before requires_grad is set.
predict_line_forward_first(f) ==
    IF f.line = 122
    THEN [f EXCEPT !.fwd = Some([tracked |-> f.x_grad]), !.line = 123]
    ELSE IF f.line = 123
    THEN [f EXCEPT !.x_grad = TRUE, !.line = 124]
    ELSE [f EXCEPT !.derivs = @ \cup {Derivative(f, "laplacian")}, !.line = 125]

\* PINOModel.predict, lines 122-124: set x.requires_grad, run the network,
\* take the Laplacian of u_pred with respect to x.
predict_line(f) ==
    IF f.line = 122
    THEN [f EXCEPT !.x_grad = TRUE, !.line = 123]
    ELSE IF f.line = 123
    THEN [f EXCEPT !.fwd = Some([tracked |-> f.x_grad]), !.line = 124]
    ELSE [f EXCEPT !.derivs = @ \cup {Derivative(f, "laplacian")}, !.line = 125]

\* PINOModel.benchmark, lines 139-140 of an iteration: set x.requires_grad,
\* run the network.
benchmark_line(f) ==
    IF f.line = 139
    THEN [f EXCEPT !.x_grad = TRUE, !.line = 140]
    ELSE [f EXCEPT !.fwd = Some([tracked |-> f.x_grad]), !.line = 142]

\* n_iters arguments tried on benchmark.
BenchIters == {0, 1, 2}

-----------------------------------------------------------------------------
(* Initial state: PINOModel.__init__ / PINOData.__init__                   *)

NoCall == [op |-> "none"]

VARIABLES
    frame            \* the PINOModel method in progress, or Idle

modelVars == <<frame>>
vars == <<dataVars, samplerVars, last, modelVars>>

InitData ==
    /\ cohort \in CohortOptions
    /\ pde = WaveEquation(TRUE)
    /\ mask_level = 1
    /\ batch_size \in BatchOptions
    /\ patch_size \in PatchOptions
    /\ device = "cuda"
    /\ _indices \in Orderings
    /\ _index_in_epoch = 0
    /\ epochDrawn = <<>>

Init ==
    /\ InitData
    /\ fld = NoField
    /\ last = NoCall
    /\ frame = Idle

-----------------------------------------------------------------------------
(* Operations                                                              *)

GetTensors(idx, ps) ==
    /\ frame = Idle
    /\ \E r \in get_tensors(cohort, idx, ps) :
          last' = [op |-> "get_tensors", idx |-> idx, patch |-> ps, res |-> r]
    /\ UNCHANGED <<dataVars, samplerVars, modelVars>>

\* train_next_batch(batch_size=B, return_inds): line 86 picks the size,
\* line 87 advances the sampler, lines 89-103 build the batch.  onReturn is
\* where the caller goes on when the call returns; a raise ends the caller.
CallTrainNextBatch(op, B, return_inds, onReturn) ==
    LET bs == PyOr(B, batch_size) IN
    \E d \in get_next(_indices, _index_in_epoch, Len(cohort), bs[1]) :
    \E r \in train_next_batch(cohort, patch_size, d.inds, return_inds) :
        /\ _indices' = d.indices
        /\ _index_in_epoch' = d.index_in_epoch
        /\ epochDrawn' = IF d.reshuffled
                         THEN SubSeqOrEmpty(d.inds, d.rest + 1, Len(d.inds))
                         ELSE epochDrawn \o d.inds
        /\ last' = [op |-> op, size |-> bs, return_inds |-> return_inds,
                    drawn |-> d.inds, reshuffled |-> d.reshuffled,
                    rest |-> d.rest, res |-> r]
        /\ frame' = IF r.outcome = "returned" THEN onReturn ELSE Idle
        /\ UNCHANGED dataVars

\* train_next_batch(B, return_inds=True)
TrainNextBatch(B) ==
    /\ frame = Idle
    /\ CallTrainNextBatch("train_next_batch", B, TRUE, Idle)

\* PINOData.test written as `self.batch_size = 1`, then train_next_batch.
DataTest_sets_batch_size(return_inds) ==
    /\ frame = Idle
    /\ \E d \in get_next(_indices, _index_in_epoch, Len(cohort), 1) :
       \E r \in train_next_batch(cohort, patch_size, d.inds, return_inds) :
          /\ _indices' = d.indices
          /\ _index_in_epoch' = d.index_in_epoch
          /\ epochDrawn' = IF d.reshuffled
                           THEN SubSeqOrEmpty(d.inds, d.rest + 1, Len(d.inds))
                           ELSE epochDrawn \o d.inds
          /\ last' = [op |-> "test", size |-> Some(1), return_inds |-> return_inds,
                      drawn |-> d.inds, reshuffled |-> d.reshuffled,
                      rest |-> d.rest, res |-> r]
          /\ batch_size' = Some(1)
          /\ UNCHANGED <<cohort, pde, mask_level, patch_size, device, fld, frame>>

\* PINOData.test: a batch of one.
DataTest(return_inds) ==
    /\ frame = Idle
    /\ CallTrainNextBatch("test", Some(1), return_inds, Idle)

\* PINOData.losses with a WaveEquation as self.pde.
Losses ==
    /\ frame = Idle
    /\ last' = [op |-> "losses", res |-> losses(pde, mask_level)]
    /\ UNCHANGED <<dataVars, samplerVars, modelVars>>

\* PINOModel.predict(a, x) is called; x may or may not be tracked already.
PredictCall(x_grad) ==
    /\ frame = Idle
    /\ frame' = Frame("predict", 122, x_grad, 0)
    /\ last' = [op |-> "predict", res |-> NoneV]
    /\ UNCHANGED <<dataVars, samplerVars>>

\* PINOModel.test, lines 163-164: data.test(return_inds=True), then predict
\* on the fresh (untracked) tensors.  Lines 165-243 run after predict
\* returns.
ModelTest ==
    /\ frame = Idle
    /\ CallTrainNextBatch("test", Some(1), TRUE, Frame("predict", 122, FALSE, 0))

PredictStep ==
    /\ frame.method = "predict"
    /\ frame.line \in {122, 123, 124}
    /\ frame' = predict_line(frame)
    /\ UNCHANGED <<dataVars, samplerVars, last>>

\* predict, line 125: self.data.pde.traction_and_body_forces(...).  The
\* lookup of the attribute on the WaveEquation object raises
\* AttributeError, which ends predict (and PINOModel.test, when it is the
\* caller).
PredictForces ==
    /\ frame.method = "predict"
    /\ frame.line = 125
    /\ frame' = Idle
    /\ last' = [op |-> "predict",
                res |-> IF "traction_and_body_forces" \in WaveEquationAttrs
                        THEN Returned(<<"u_pred", "mu_pred", "lu_pred",
                                        "f_trac", "f_body">>)
                        ELSE Raised("AttributeError", "traction_and_body_forces"),
                fwd |-> frame.fwd,
                derivs |-> frame.derivs]
    /\ UNCHANGED <<dataVars, samplerVars>>

\* PINOModel.benchmark(n_iters), line 136 of an iteration: the batch is
\* drawn with the pipeline's batch_size.  With n_iters = 0 the loop is
\* skipped and line 149 divides 0 by the zero iter_time.
BenchmarkCall(n_iters) ==
    /\ frame = Idle
    /\ IF n_iters = 0
       THEN /\ last' = [op |-> "benchmark",
                        res |-> Raised("ZeroDivisionError", "iter_time"),
                        fwd |-> NoneV, derivs |-> {}]
            /\ UNCHANGED <<dataVars, samplerVars, modelVars>>
       ELSE CallTrainNextBatch("train_next_batch", NoneV, FALSE,
                               Frame("benchmark", 139, FALSE, n_iters))

BenchmarkStep ==
    /\ frame.method = "benchmark"
    /\ frame.line \in {139, 140}
    /\ frame' = benchmark_line(frame)
    /\ UNCHANGED <<dataVars, samplerVars, last>>

\* benchmark, line 142: self.data.losses(...).  A raise ends benchmark;
\* otherwise the next iteration would start at line 136, or the timings be
\* printed after the last one.
BenchmarkLosses ==
    /\ frame.method = "benchmark"
    /\ frame.line = 142
    /\ LET r == losses(pde, mask_level)
           ds == {Derivative(frame, by) : by \in r.derivs}
       IN  IF r.outcome = "raised" \/ frame.left = 1
           THEN /\ frame' = Idle
                /\ last' = [op |-> "benchmark",
                            res |-> IF r.outcome = "raised"
                                    THEN Raised(r.err, r.detail)
                                    ELSE Returned(NoneV),
                            fwd |-> frame.fwd,
                            derivs |-> frame.derivs \cup ds]
           ELSE /\ frame' = [frame EXCEPT !.line = 136, !.left = @ - 1,
                                          !.fwd = NoneV,
                                          !.derivs = @ \cup ds]
                /\ last' = last
    /\ UNCHANGED <<dataVars, samplerVars>>

BatchArgs == {NoneV} \cup {Some(b) : b \in 1..NumPatients}

Next ==
    \/ \E idx \in 0..(NumPatients - 1), ps \in PatchArgs : GetTensors(idx, ps)
    \/ \E B \in BatchArgs : TrainNextBatch(B)
    \/ \E ri \in BOOLEAN : DataTest(ri)
    \/ Losses
    \/ \E x_grad \in BOOLEAN : PredictCall(x_grad)
    \/ ModelTest
    \/ PredictStep
    \/ PredictForces
    \/ \E n_iters \in BenchIters : BenchmarkCall(n_iters)
    \/ BenchmarkStep
    \/ BenchmarkLosses

Spec == Init /\ [][Next]_vars

-----------------------------------------------------------------------------
(* The PDE operators applied to fields drawn from FieldOptions             *)

InitPde ==
    /\ cohort = CohortOf(NumPatients, NumPatients + 1, {}, FALSE)
    /\ pde \in {WaveEquation(d) : d \in BOOLEAN}
    /\ mask_level = 1
    /\ batch_size = Some(2)
    /\ patch_size = NoneV
    /\ device = "cuda"
    /\ _indices = [i \in 1..NumPatients |-> i - 1]
    /\ _index_in_epoch = 0
    /\ epochDrawn = <<>>
    /\ fld \in FieldOptions
    /\ last = NoCall
    /\ frame = Idle

Evaluated(op, dim, res) ==
    /\ last' = [op |-> op, dim |-> dim, res |-> res]
    /\ UNCHANGED <<dataVars, samplerVars, modelVars>>

Laplacian(dim) ==
    /\ fld # NoField
    /\ Evaluated("laplacian", dim, laplacian(UOf(fld), XOf(fld), dim))

WaveEquationCall ==
    /\ fld # NoField
    /\ Evaluated("WaveEquation", 1, WaveEquation_call(pde, XOf(fld), OutputsOf(fld)))

\* The variants take the modulus (and lam, p) as N x 1 fields, rho and a
\* scalar omega.
Lvwe ==
    /\ fld # NoField
    /\ Evaluated("lvwe", 0,
              lvwe(XOf(fld), UOf(fld), MuColumn(fld.N, fld.smu),
                   MuColumn(fld.N, fld.smu), pde.rho, fld.somega))

HomogeneousLvwe ==
    /\ fld # NoField
    /\ Evaluated("homogeneous_lvwe", 0,
              homogeneous_lvwe(XOf(fld), UOf(fld), MuColumn(fld.N, fld.smu),
                               MuColumn(fld.N, fld.smu), pde.rho, fld.somega))

IncompressibleHomogeneousLvwe ==
    /\ fld # NoField
    /\ Evaluated("incompressible_homogeneous_lvwe", 0,
              incompressible_homogeneous_lvwe(
                  XOf(fld), UOf(fld), MuColumn(fld.N, fld.smu),
                  pde.rho, fld.somega))

PressureHomogeneousLvwe ==
    /\ fld # NoField
    /\ Evaluated("pressure_homogeneous_lvwe", 0,
              pressure_homogeneous_lvwe(
                  XOf(fld), UOf(fld), MuColumn(fld.N, fld.smu),
                  MuColumn(fld.N, fld.smu), pde.rho, fld.somega))

NextPde ==
    \/ \E dim \in 0..MaxK : Laplacian(dim)
    \/ WaveEquationCall
    \/ Lvwe
    \/ HomogeneousLvwe
    \/ IncompressibleHomogeneousLvwe
    \/ PressureHomogeneousLvwe

SpecPde == InitPde /\ [][NextPde]_vars

-----------------------------------------------------------------------------
(* The targets from get_tensors through train_next_batch to losses        *)

\* Cohorts whose patients hold every channel, or all but the last one;
\* with or without a first patient on the smaller grid.
TargetCohorts ==
    {CohortOf(NumPatients, f, {"wave", "mre"}, small) :
        f \in {NumPatients, NumPatients + 1}, small \in BOOLEAN}

InitTargets ==
    /\ cohort \in TargetCohorts
    /\ pde = WaveEquation(TRUE)
    /\ mask_level = 1
    /\ batch_size \in BatchOptions
    /\ patch_size \in PatchOptions
    /\ device = "cuda"
    /\ _indices \in Orderings
    /\ _index_in_epoch = 0
    /\ epochDrawn = <<>>
    /\ fld = NoField
    /\ last = NoCall
    /\ frame = Idle

\* get_tensors(idx, ps), with the elements of the target it returns.
GetTargets(idx, ps) ==
    /\ frame = Idle
    /\ \E r \in get_tensors(cohort, idx, ps) :
          last' = [op |-> "get_tensors", idx |-> idx, patch |-> ps, res |-> r,
                   targets |-> IF r.outcome = "raised"
                               THEN Raised(r.err, r.detail)
                               ELSE target_of(r.ret)]
    /\ UNCHANGED <<dataVars, samplerVars, modelVars>>

\* train_next_batch(batch_size=B, return_inds=True), with the elements of
\* the stacked targets it returns.
BatchTargets(B) ==
    /\ frame = Idle
    /\ LET bs == PyOr(B, batch_size) IN
       \E d \in get_next(_indices, _index_in_epoch, Len(cohort), bs[1]) :
       \E r \in train_next_batch(cohort, patch_size, d.inds, TRUE) :
       \E t \in batch_targets(cohort, patch_size, d.inds) :
          /\ t.outcome = r.outcome
          /\ _indices' = d.indices
          /\ _index_in_epoch' = d.index_in_epoch
          /\ epochDrawn' = IF d.reshuffled
                           THEN SubSeqOrEmpty(d.inds, d.rest + 1, Len(d.inds))
                           ELSE epochDrawn \o d.inds
          /\ last' = [op |-> "train_next_batch", size |-> bs,
                      return_inds |-> TRUE, drawn |-> d.inds,
                      reshuffled |-> d.reshuffled, rest |-> d.rest,
                      res |-> r, targets |-> t]
    /\ UNCHANGED <<dataVars, modelVars>>

\* losses on the batch just returned, up to line 27: the targets are split.
LossesSplit ==
    /\ frame = Idle
    /\ last.op = "train_next_batch"
    /\ last.targets.outcome = "returned"
    /\ last' = [op |-> "losses", drawn |-> last.drawn,
                targets |-> last.targets,
                res |-> losses_split(last.targets.ret)]
    /\ UNCHANGED <<dataVars, samplerVars, modelVars>>

NextTargets ==
    \/ \E idx \in 0..(NumPatients - 1), ps \in PatchOptions : GetTargets(idx, ps)
    \/ \E B \in BatchArgs : BatchTargets(B)
    \/ LossesSplit

SpecTargets == InitTargets /\ [][NextTargets]_vars

-----------------------------------------------------------------------------
(* Properties of the data pipeline                                         *)

IsBatchCall(c) == c.op \in {"train_next_batch", "test"}

\* A patient record holding every channel get_tensors reads.
Complete(patient) == AllChannels \subseteq patient.arrays

C1_DrawnState ==
    /\ NoDup(epochDrawn)
    /\ epochDrawn = SubSeqOrEmpty(_indices, 1, _index_in_epoch)
    /\ (IsBatchCall(last) /\ last.size # NoneV) =>
          /\ Len(last.drawn) = last.size[1]
          /\ Range(last.drawn) \subseteq 0..(Len(cohort) - 1)
          /\ last.res.outcome = "returned" =>
                /\ last.res.ret.n = last.size[1]
                /\ last.return_inds => last.res.ret.inds = Some(last.drawn)
                /\ ~last.return_inds => last.res.ret.inds = NoneV
          /\ ~last.reshuffled => NoDup(last.drawn) /\ last.rest = 0
          /\ last.reshuffled =>
                /\ NoDup(SubSeqOrEmpty(last.drawn, 1, last.rest))
                /\ NoDup(SubSeqOrEmpty(last.drawn, last.rest + 1, Len(last.drawn)))

\* C1, the step part: the ordering changes only in a call that reshuffles,
\* and a reshuffle closes an epoch in which every index 0..n-1 was drawn
\* exactly once.
C1_ReshuffleStep ==
    /\ _indices' # _indices => IsBatchCall(last') /\ last'.reshuffled
    /\ (/\ <<samplerVars, last>>' # <<samplerVars, last>>
        /\ IsBatchCall(last')
        /\ last'.reshuffled) =>
          LET closed == epochDrawn \o SubSeqOrEmpty(last'.drawn, 1, last'.rest)
          IN  /\ NoDup(closed)
              /\ Range(closed) = 0..(Len(cohort) - 1)

C2_PatchCrop ==
    (/\ last.op = "get_tensors"
     /\ last.patch # NoneV
     /\ Complete(cohort[last.idx + 1])
     /\ 1 <= last.patch[1]
     /\ last.patch[1] <= Min(cohort[last.idx + 1].shape[1],
                             cohort[last.idx + 1].shape[2]))
    => /\ last.res.outcome = "returned"
       /\ LET t == last.res.ret
              P == last.patch[1]
              s == cohort[last.idx + 1].shape
          IN  /\ t.origin # NoneV
              /\ t.origin[1][1] \in 0..(s[1] - P)
              /\ t.origin[1][2] \in 0..(s[2] - P)
              /\ \A v \in LocalArrays :
                    t.window[v] = [x0 |-> t.origin[1][1], y0 |-> t.origin[1][2],
                                   nx |-> P, ny |-> P]

LackingPositions(c) ==
    {i \in 1..Len(c.drawn) : ~Complete(cohort[c.drawn[i] + 1])}

FirstLacking(c) ==
    CHOOSE i \in LackingPositions(c) : \A j \in LackingPositions(c) : i <= j

\* C4: when a drawn patient lacks a channel, train_next_batch raises and
\* returns no batch.  Without a patch size it raises KeyError for a missing
\* channel at the first such sample, every sample before it having been
\* extracted; with a patch size it raises at the first sample.
C4_MissingChannelAborts ==
    (IsBatchCall(last) /\ LackingPositions(last) # {})
    => /\ last.res.outcome = "raised"
       /\ last.res.ret = NoneV
       /\ last.res.at \in 1..FirstLacking(last)
       /\ patch_size = NoneV =>
             /\ last.res.at = FirstLacking(last)
             /\ last.res.err = "KeyError"
             /\ last.res.detail \in
                  AllChannels \ cohort[last.drawn[last.res.at] + 1].arrays
       /\ patch_size # NoneV => last.res.at = 1

\* A batch whose second sample is the first to lack a channel.
C4_Witness ==
    /\ IsBatchCall(last)
    /\ patch_size = NoneV
    /\ LackingPositions(last) # {}
    /\ FirstLacking(last) = 2
    /\ last.res.outcome = "raised"
    /\ last.res.err = "KeyError"

\* C5: PINOData.losses with the configured residual object returns exactly
\* three terms, in the order displacement data loss, modulus data loss,
\* PDE-residual loss; each is loss_fn applied with the target mask and
\* mask_level, and the PDE term compares the residual of (x, u_pred,
\* mu_pred) against zero.
C5_ThreeLossTerms ==
    last.op = "losses" =>
       /\ last.res.outcome = "returned"
       /\ last.res.ret =
            <<LossTerm(<<"u_true">>, <<"u_pred">>, "mask", mask_level),
              LossTerm(<<"mu_true">>, <<"mu_pred">>, "mask", mask_level),
              LossTerm(<<"0">>, <<"x", "u_pred", "mu_pred">>, "mask", mask_level)>>

\* The forward pass recorded in fwd ran while x was tracked, and every
\* derivative in derivs was requested after a forward pass that ran while x
\* was tracked.
TrackedBeforeUse(fwd, derivs) ==
    /\ fwd # NoneV => fwd[1].tracked
    /\ \A d \in derivs : d.after_forward /\ d.x_tracked_at_forward

\* C10: in predict and in each benchmark iteration, x has gradient tracking
\* enabled before the forward pass runs, and a derivative is requested only
\* after that forward pass, never for outputs produced while x was
\* untracked.
C10_TrackingBeforeForward ==
    /\ frame # Idle =>
          /\ TrackedBeforeUse(frame.fwd, frame.derivs)
          /\ frame.fwd # NoneV => frame.x_grad
    /\ (frame = Idle /\ last.op \in {"predict", "benchmark"}) =>
          TrackedBeforeUse(last.fwd, last.derivs)

\* predict has taken the Laplacian of outputs of a forward pass.
C10_Witness ==
    /\ frame # Idle
    /\ frame.method = "predict"
    /\ frame.line = 125
    /\ frame.fwd # NoneV
    /\ \E d \in frame.derivs : d.by = "laplacian"

-----------------------------------------------------------------------------
(* Properties of the PDE operators                                         *)

\* The sum of the pure second partials of column col at point n over the
\* input columns lo..hi (1-based).
RECURSIVE DiagSum(_, _, _, _)
DiagSum(h, n, lo, hi) ==
    IF lo > hi THEN 0 ELSE h[n][hi][hi] + DiagSum(h, n, lo, hi - 1)

\* C6: with detach enabled the residual of WaveEquation.__call__ is attached
\* to the modulus output only and its derivative with respect to a
\* displacement-network parameter is exactly zero; with detach disabled it
\* is attached to both outputs and that derivative is
\* mu * Laplacian(du) + rho * (2*pi*omega)^2 * du.
C6_DetachFreezesDisplacement ==
    (last.op = "WaveEquation" /\ last.res.outcome = "returned") =>
       \A i \in 1..Len(last.res.ret) :
          LET col == last.res.ret[i]
              u == UOf(fld)[i]
              mu == MuColumn(fld.N, fld.smu)
              om == [n \in 1..fld.N |-> XOf(fld)[n][1]]
          IN  IF pde.detach
              THEN /\ col.deps = {"mu"}
                   /\ \A n \in 1..fld.N : col.tu[n] = <<0, 0>>
              ELSE /\ col.deps = {"u", "mu"}
                   /\ \A n \in 1..fld.N :
                         col.tu[n] =
                            <<mu.val[n] * DiagSum(u.tuhess, n, 2, fld.K),
                              pde.rho * om[n] * om[n] * u.tu[n]>>

\* A detach-enabled residual that is not zero and still depends on the
\* modulus network.
C6_Witness ==
    /\ last.op = "WaveEquation"
    /\ last.res.outcome = "returned"
    /\ pde.detach
    /\ \E i \in 1..Len(last.res.ret), n \in 1..fld.N :
          /\ last.res.ret[i].val[n][1] # 0
          /\ last.res.ret[i].val[n][2] # 0
          /\ last.res.ret[i].tm[n] # <<0, 0>>

\* The residual mu * Laplacian(u) + rho * (2*pi*omega)^2 * u of the fields,
\* the Laplacian over the spatial input columns 1..K-1.
ResidualAsStated ==
    LET mu == MuColumn(fld.N, fld.smu)
        om == [n \in 1..fld.N |-> XOf(fld)[n][1]]
    IN  /\ last.res.outcome = "returned"
        /\ Len(last.res.ret) = fld.M
        /\ \A i \in 1..fld.M :
              /\ DOMAIN last.res.ret[i].val = 1..fld.N
              /\ \A n \in 1..fld.N :
                    last.res.ret[i].val[n] =
                       <<mu.val[n] * DiagSum(UOf(fld)[i].hess, n, 2, fld.K),
                         pde.rho * om[n] * om[n] * UOf(fld)[i].val[n]>>

\* C7 (as stated): for every N x K input, WaveEquation.__call__ returns the
\* N x M residual mu * Laplacian(u) + rho * (2*pi*omega)^2 * u.
C7_ResidualForEveryInput ==
    last.op = "WaveEquation" => ResidualAsStated

\* C7 (amended): with at least one spatial column (K >= 2) the call returns
\* that residual, the same with detach on or off; with K = 1 it ends in the
\* error laplacian raises when there is no column to differentiate.
C7_HelmholtzResidual ==
    last.op = "WaveEquation" =>
       IF fld.K >= 2 THEN ResidualAsStated
       ELSE last.res.outcome = "raised" /\ last.res.ret = NoneV

\* A returned residual with both terms non-zero, over three input columns
\* and two displacement components.
C7_Witness ==
    /\ last.op = "WaveEquation"
    /\ last.res.outcome = "returned"
    /\ fld.K = 3
    /\ fld.M = 2
    /\ last.res.ret[2].val[1][1] # 0
    /\ last.res.ret[2].val[1][2] # 0

VariantOps ==
    {"lvwe", "homogeneous_lvwe", "incompressible_homogeneous_lvwe",
     "pressure_homogeneous_lvwe", "WaveEquation"}

\* The displacement field is identically zero.
ZeroDisplacement == fld.su = 0 /\ fld.sh = 0

\* C8: every residual variant, evaluated on an identically zero
\* displacement field, returns the external-force term alone, which is
\* zero.
C8_ZeroDisplacementResidual ==
    (last.op \in VariantOps /\ ZeroDisplacement)
    => /\ last.res.outcome = "returned"
       /\ \A i \in 1..Len(last.res.ret), n \in 1..fld.N :
             last.res.ret[i].val[n] =
                (IF last.op = "WaveEquation" THEN <<0, 0>> ELSE 0)

\* The Hessian calls laplacian is to make: per output component, one per
\* input column from dim on, the component selector None for a single
\* column.
ExpectedCalls(M, K, dim) ==
    [q \in 1..(M * (K - dim)) |->
        LET i == (q - 1) \div (K - dim)
            j == dim + ((q - 1) % (K - dim))
        IN  [component |-> IF M = 1 THEN NoneV ELSE Some(i), i |-> j, j |-> j]]

\* C9: laplacian(u, x, dim) with 0 <= dim < K returns an N x M tensor whose
\* column i sums the pure second partials of component i over the input
\* columns dim..K-1, through exactly K - dim Hessian calls per component
\* (selector None when M = 1); with dim >= K it ends in an error.
C9_LaplacianSumsPureSecondPartials ==
    last.op = "laplacian" =>
       IF last.dim < fld.K
       THEN /\ last.res.outcome = "returned"
            /\ Len(last.res.ret) = fld.M
            /\ \A i \in 1..fld.M :
                  /\ DOMAIN last.res.ret[i].val = 1..fld.N
                  /\ \A n \in 1..fld.N :
                        last.res.ret[i].val[n] =
                           DiagSum(UOf(fld)[i].hess, n, last.dim + 1, fld.K)
            /\ last.res.calls = ExpectedCalls(fld.M, fld.K, last.dim)
       ELSE /\ last.res.outcome = "raised"
            /\ last.res.ret = NoneV

\* A Laplacian over the last two of three input columns of a single-column
\* field with non-zero curvature.
C9_Witness ==
    /\ last.op = "laplacian"
    /\ last.dim = 1
    /\ fld.K = 3
    /\ fld.M = 1
    /\ fld.sh # 0
    /\ last.res.outcome = "returned"
    /\ last.res.calls[1].component = NoneV

-----------------------------------------------------------------------------
(* Properties of PINOModel.predict and of the network inputs               *)

\* C11: PINOModel.predict(a, x), the pipeline holding a WaveEquation,
\* completes and returns the predicted displacement, the predicted modulus,
\* the Laplacian of the predicted displacement and the traction and
\* body-force components of the residual.
C11_PredictReturnsForces ==
    (frame = Idle /\ last.op = "predict") =>
       /\ last.res.outcome = "returned"
       /\ last.res.ret = <<"u_pred", "mu_pred", "lu_pred", "f_trac", "f_body">>

\* C13: the input tuple returned by get_tensors, and stacked by
\* train_next_batch, is (anatomical image stack a, coordinates x); the
\* measured displacement u is in the targets only, not in the inputs.
C13_AnatomyInputs ==
    ((last.op = "get_tensors" \/ IsBatchCall(last))
     /\ last.res.outcome = "returned")
    => /\ last.res.ret.inputs = <<"a", "x">>
       /\ "u" \notin Range(last.res.ret.inputs)
       /\ "u" \in Range(last.res.ret.targets)

-----------------------------------------------------------------------------
(* What the operations leave alone                                         *)

\* What a step may change: the configuration of the pipeline stays as it
\* is; the sampler's ordering and cursor move only in a step that is a
\* train_next_batch or test call; and a test call draws exactly one index,
\* the one under the cursor, moving the cursor by one (or, the ordering
\* exhausted, reshuffling and taking the head of the new ordering).
C12_Step ==
    /\ UNCHANGED <<cohort, patch_size, batch_size, device, mask_level>>
    /\ <<_indices, _index_in_epoch>>' # <<_indices, _index_in_epoch>> =>
          frame = Idle /\ IsBatchCall(last')
    /\ (frame = Idle /\ last'.op = "test") =>
          /\ Len(last'.drawn) = 1
          /\ IF _index_in_epoch < Len(cohort)
             THEN /\ _indices' = _indices
                  /\ _index_in_epoch' = _index_in_epoch + 1
                  /\ last'.drawn[1] = _indices[_index_in_epoch + 1]
             ELSE /\ _index_in_epoch' = 1
                  /\ last'.drawn[1] = _indices'[1]

\* C12: no train_next_batch, test, get_tensors, losses or PINOModel.test
\* call changes the cohort, patch_size, batch_size, device or mask_level;
\* only the sampler's ordering and cursor come to differ from the state
\* after construction, and PINOData.test advances that same cursor.
C12_OnlySamplerMoves == [][C12_Step]_vars

\* A PINOData.test call that found the ordering exhausted by earlier calls
\* and started a new one.
C12_Witness ==
    /\ last.op = "test"
    /\ last.res.outcome = "returned"
    /\ last.reshuffled
    /\ _index_in_epoch = 1

-----------------------------------------------------------------------------
(* The round trip of the targets                                           *)

\* The channels of the target's last axis, in order.
TargetChannels == <<"wave", "mre", "mre_mask">>

\* C14, get_tensors: the targets it returns hold, over the returned window,
\* the patient's wave, mre and mre_mask values (as float32) at last-axis
\* positions 0, 1 and 2.
C14_TargetsOfPatient ==
    (last.op = "get_tensors" /\ last.res.outcome = "returned") =>
       /\ last.targets.outcome = "returned"
       /\ LET t == last.targets.ret
              w == last.res.ret.window["u"]
          IN  /\ <<t.nx, t.ny, t.c>> = <<w.nx, w.ny, 3>>
              /\ \A i \in 0..(w.nx - 1), j \in 0..(w.ny - 1), k \in 0..2 :
                    t.at[<<i, j, k>>] =
                       Float32(Value(last.idx, TargetChannels[k + 1],
                                     w.x0 + i, w.y0 + j))

\* C14, train_next_batch: sample b of the stacked targets is the target of
\* the b-th drawn index.
C14_TargetsOfBatch ==
    (last.op = "train_next_batch" /\ last.res.outcome = "returned") =>
       /\ last.targets.outcome = "returned"
       /\ LET t == last.targets.ret
          IN  /\ <<t.n, t.c>> = <<Len(last.drawn), 3>>
              /\ \A b \in 0..(t.n - 1), i \in 0..(t.nx - 1),
                    j \in 0..(t.ny - 1), k \in 0..2 :
                    t.at[<<b, i, j, k>>] =
                       Float32(Value(last.drawn[b + 1], TargetChannels[k + 1], i, j))

\* C14, losses: the split yields exactly three parts, each with a last axis
\* of extent 1, equal to the wave, mre and mre_mask values of the drawn
\* patients in drawing order.
C14_SplitOfBatch ==
    last.op = "losses" =>
       /\ last.res.outcome = "returned"
       /\ LET parts == <<last.res.ret.u_true, last.res.ret.mu_true,
                         last.res.ret.mask>>
          IN  \A k \in 1..3 :
                 /\ <<parts[k].n, parts[k].c>> = <<Len(last.drawn), 1>>
                 /\ \A b \in 0..(parts[k].n - 1), i \in 0..(parts[k].nx - 1),
                       j \in 0..(parts[k].ny - 1) :
                       parts[k].at[<<b, i, j, 0>>] =
                          Float32(Value(last.drawn[b + 1], TargetChannels[k], i, j))

\* C14: the targets get_tensors builds concatenate (displacement,
\* elastogram, mask) in that order on the last axis; stacking keeps that
\* order and the order of the drawn indices; the split in losses gives back
\* exactly the three parts u_true, mu_true, mask, equal to the patients'
\* wave, mre and mre_mask values (as float32) over the window.
C14_TargetsRoundTrip ==
    /\ C14_TargetsOfPatient
    /\ C14_TargetsOfBatch
    /\ C14_SplitOfBatch

\* The targets of a batch of two different patients, split by losses.
C14_Witness ==
    /\ last.op = "losses"
    /\ last.res.outcome = "returned"
    /\ Len(last.drawn) = 2
    /\ last.drawn[1] # last.drawn[2]
    /\ last.res.ret.mask.at[<<1, 0, 0, 0>>] =
          Float32(Value(last.drawn[2], "mre_mask", 0, 0))

====
